---- MODULE Spec2Model ----
(***************************************************************************)
(* A model of edge-identity: the p11 package (src/p11/p11.go) and the      *)
(* commands that drive it (src/cmd).  One action is one invocation of a    *)
(* command: NewToken, the operation, the error handling and the deferred   *)
(* Finalise.  The token's objects persist between invocations.             *)
(*                                                                         *)
(* Byte strings are sequences of naturals.  The widths of the program are  *)
(* scaled down so that the state space is finite and small: a "byte" that  *)
(* takes part in big-endian arithmetic has ByteRadix values instead of     *)
(* 256, R, S and the point coordinates are HashLength bytes instead of 32, *)
(* and the curve is a group of prime order secp256k1N whose points are     *)
(* named by their discrete logarithm.                                      *)
(***************************************************************************)
EXTENDS Integers, Sequences, FiniteSets, TLC

VARIABLES objects, run

vars == <<objects, run>>

(***************************************************************************)
(* Bounds of the model.                                                    *)
(***************************************************************************)
MaxObjects == 3

\* The largest number of objects on a token whose search is paged.
MaxMatches == 41

\* The longest byte string handed to fixLen.
MaxLen == 3

(***************************************************************************)
(* Program constants (scaled).                                             *)
(***************************************************************************)
ByteRadix == 6
HashLength == 2
secp256k1N == 31
secp256k1HalfN == secp256k1N \div 2
batchSize == 20
pointFormatMarker == 4
recoveryOffset == 27

SignatureLength == 2 * HashLength + 1

(***************************************************************************)
(* Byte strings.                                                           *)
(***************************************************************************)
Min(a, b) == IF a < b THEN a ELSE b

Take(s, n) == SubSeq(s, 1, Min(n, Len(s)))

Drop(s, n) == SubSeq(s, n + 1, Len(s))

\* big.Int.SetBytes: the big-endian value of b.
RECURSIVE BytesToInt(_)
BytesToInt(b) ==
    IF b = <<>> THEN 0
    ELSE BytesToInt(SubSeq(b, 1, Len(b) - 1)) * ByteRadix + b[Len(b)]

\* big.Int.Bytes: the minimal big-endian byte string of n (empty for 0).
RECURSIVE IntToBytes(_)
IntToBytes(n) ==
    IF n = 0 THEN <<>>
    ELSE IntToBytes(n \div ByteRadix) \o <<n % ByteRadix>>

\* The fixed-width big-endian encoding the token and the curve library use.
RECURSIVE LeftPad(_, _)
LeftPad(b, n) == IF Len(b) >= n THEN b ELSE LeftPad(<<0>> \o b, n)

FixedBytes(n) == LeftPad(IntToBytes(n), HashLength)

RECURSIVE StripLeadingZeros(_)
StripLeadingZeros(b) ==
    IF b # <<>> /\ b[1] = 0 THEN StripLeadingZeros(Tail(b)) ELSE b

\* fixLen: skip the leading zero bytes, then copy what is left to the START
\* of a zeroed buffer of HashLength bytes (copy stops at the shorter length).
fixLen(b) ==
    LET rest == StripLeadingZeros(b)
    IN  [i \in 1..HashLength |-> IF i <= Len(rest) THEN rest[i] ELSE 0]

(***************************************************************************)
(* The curve.  A point is k*G for k in 1..secp256k1N-1; k and N-k share    *)
(* their x coordinate and differ in the parity of y.                       *)
(***************************************************************************)
Scalars == 1..(secp256k1N - 1)

XTable == <<7, 1, 19, 4, 11, 2, 26, 9, 14, 23, 13, 29, 17, 22, 28>>

XCoord(k) == XTable[Min(k, secp256k1N - k)]

YParity(k) == IF k <= secp256k1HalfN THEN 0 ELSE 1

\* The uncompressed encoding of the point k*G: marker, X, Y.
PointBytes(k) == <<pointFormatMarker>> \o FixedBytes(XCoord(k)) \o FixedBytes(k)

Inverse(a) == CHOOSE b \in Scalars : (a * b) % secp256k1N = 1

\* The token's raw ECDSA signature with private key d and nonce k over the
\* hash: R || S, fixed width, no recovery information.
HashValue(hash) == BytesToInt(hash) % secp256k1N

EcdsaS(d, k, hash) ==
    (Inverse(k) * (HashValue(hash) + XCoord(k) * d)) % secp256k1N

RawSignature(d, k, hash) ==
    FixedBytes(XCoord(k)) \o FixedBytes(EcdsaS(d, k, hash))

\* crypto.Ecrecover(hash, sig): the public key that signed hash, or an error.
Ecrecover(hash, sig) ==
    IF Len(hash) # HashLength THEN [err |-> "InvalidMsgLen", pub |-> <<>>]
    ELSE IF Len(sig) # SignatureLength
    THEN [err |-> "InvalidSignatureLen", pub |-> <<>>]
    ELSE IF sig[SignatureLength] >= 4
    THEN [err |-> "InvalidRecoveryID", pub |-> <<>>]
    ELSE
      LET r == BytesToInt(SubSeq(sig, 1, HashLength))
          s == BytesToInt(SubSeq(sig, HashLength + 1, 2 * HashLength))
          v == sig[SignatureLength]
          ks == {k \in Scalars : XCoord(k) = r /\ YParity(k) = v}
      IN  IF r \notin Scalars \/ s \notin Scalars \/ ks = {}
          THEN [err |-> "RecoveryFailed", pub |-> <<>>]
          ELSE
            LET k == CHOOSE x \in ks : TRUE
                q == (Inverse(r) * (s * k + secp256k1N * secp256k1N
                                     - HashValue(hash))) % secp256k1N
            IN  IF q = 0 THEN [err |-> "RecoveryFailed", pub |-> <<>>]
                ELSE [err |-> "", pub |-> PointBytes(q)]

\* crypto.UnmarshalPubkey: only the encoding of a point of the curve parses.
UnmarshalPubkeyOk(b) == \E k \in Scalars : b = PointBytes(k)

(***************************************************************************)
(* The token.  objects is the token's object store in enumeration order;   *)
(* an object is a record of its handle and the attributes the program      *)
(* reads or searches by.  label = Absent: reading CKA_LABEL fails with      *)
(* CKR_ATTRIBUTE_TYPE_INVALID.  point = NoValue: the object has no          *)
(* CKA_EC_POINT.  d is the private scalar of an EC key (0 otherwise).      *)
(***************************************************************************)
Absent == "(absent)"

NoValue == <<-1>>

NoFault == [call |-> "none", nth |-> 1]

Object(h, class, keytype, label, id, point, d, origin) ==
    [h |-> h, class |-> class, keytype |-> keytype, label |-> label,
     id |-> id, point |-> point, d |-> d, origin |-> origin]

Handles(objs) == {objs[i].h : i \in DOMAIN objs}

ObjectOf(objs, h) == CHOOSE o \in {objs[i] : i \in DOMAIN objs} : o.h = h

\* The token gives a new object the smallest handle not in use.
NewHandle(objs) ==
    CHOOSE h \in 1..(Len(objs) + 1) :
        /\ h \notin Handles(objs)
        /\ \A g \in 1..(h - 1) : g \in Handles(objs)

\* A search template is a function from attribute names to values; an
\* object matches when it carries every attribute of the template.
Matches(o, template) == \A a \in DOMAIN template : o[a] = template[a]

MatchingHandles(objs, template) ==
    LET sel == SelectSeq(objs, LAMBDA o : Matches(o, template))
    IN  [i \in 1..Len(sel) |-> sel[i].h]

EmptyTemplate == [a \in {} |-> ""]

KeyTemplate(class, label, keyid) ==
    [a \in {"class"} \cup (IF label # "" THEN {"label"} ELSE {})
                     \cup (IF keyid # "" THEN {"id"} ELSE {}) |->
        CASE a = "class" -> class
          [] a = "label" -> label
          [] a = "id" -> keyid]

(***************************************************************************)
(* Token calls.  calls is the trace of the calls made so far in the run;   *)
(* the fault f makes the f.nth call of kind f.call fail.                   *)
(***************************************************************************)
Call(op, arg, ok) == [op |-> op, arg |-> arg, ok |-> ok]

CountCalls(calls, op) == Cardinality({i \in DOMAIN calls : calls[i].op = op})

Fails(f, calls, op) == f.call = op /\ f.nth = CountCalls(calls, op) + 1

\* The paging loop of findAllMatching: pages of batchSize handles until an
\* empty page; a failed page returns without FindObjectsFinal.
RECURSIVE FindPages(_, _, _, _, _)
FindPages(matching, cursor, acc, f, calls) ==
    IF Fails(f, calls, "FindObjects")
    THEN [err |-> "TokenError", objects |-> acc,
          calls |-> Append(calls, Call("FindObjects", 0, FALSE))]
    ELSE
      LET res == SubSeq(matching, cursor + 1,
                        Min(cursor + batchSize, Len(matching)))
          calls1 == Append(calls, Call("FindObjects", Len(res), TRUE))
      IN  IF Len(res) = 0
          THEN IF Fails(f, calls1, "FindObjectsFinal")
               THEN [err |-> "TokenError", objects |-> acc,
                     calls |-> Append(calls1, Call("FindObjectsFinal", 0, FALSE))]
               ELSE [err |-> "", objects |-> acc,
                     calls |-> Append(calls1, Call("FindObjectsFinal", 0, TRUE))]
          ELSE FindPages(matching, cursor + Len(res), acc \o res, f, calls1)

\* findAllMatching that fetches a single page.
findAllMatchingOnePage(objs, template, f, calls) ==
    IF Fails(f, calls, "FindObjectsInit")
    THEN [err |-> "TokenError", objects |-> <<>>,
          calls |-> Append(calls, Call("FindObjectsInit", 0, FALSE))]
    ELSE
      LET calls1 == Append(calls, Call("FindObjectsInit", 0, TRUE))
          res == Take(MatchingHandles(objs, template), batchSize)
          calls2 == Append(calls1, Call("FindObjects", Len(res), TRUE))
      IN  IF Fails(f, calls1, "FindObjects")
          THEN [err |-> "TokenError", objects |-> <<>>,
                calls |-> Append(calls1, Call("FindObjects", 0, FALSE))]
          ELSE IF Fails(f, calls2, "FindObjectsFinal")
          THEN [err |-> "TokenError", objects |-> res,
                calls |-> Append(calls2, Call("FindObjectsFinal", 0, FALSE))]
          ELSE [err |-> "", objects |-> res,
                calls |-> Append(calls2, Call("FindObjectsFinal", 0, TRUE))]

findAllMatching(objs, template, f, calls) ==
    IF Fails(f, calls, "FindObjectsInit")
    THEN [err |-> "TokenError", objects |-> <<>>,
          calls |-> Append(calls, Call("FindObjectsInit", 0, FALSE))]
    ELSE FindPages(MatchingHandles(objs, template), 0, <<>>, f,
                   Append(calls, Call("FindObjectsInit", 0, TRUE)))

\* findKeyByLabel: one page of at most one handle; anything but exactly one
\* handle returns at once, without FindObjectsFinal.
findKeyByLabel(objs, label, f, calls) ==
    IF Fails(f, calls, "FindObjectsInit")
    THEN [err |-> "TokenError", obj |-> 0,
          calls |-> Append(calls, Call("FindObjectsInit", 0, FALSE))]
    ELSE
      LET calls1 == Append(calls, Call("FindObjectsInit", 0, TRUE))
          failed == Fails(f, calls1, "FindObjects")
          matching == MatchingHandles(objs, [a \in {"label"} |-> label])
          found == IF failed THEN <<>> ELSE Take(matching, 1)
          calls2 == Append(calls1, Call("FindObjects", Len(found), ~failed))
      IN  IF Len(found) # 1
          THEN [err |-> "KeyNotFound", obj |-> 0, calls |-> calls2]
          ELSE IF Fails(f, calls2, "FindObjectsFinal")
          THEN [err |-> "TokenError", obj |-> found[1],
                calls |-> Append(calls2, Call("FindObjectsFinal", 0, FALSE))]
          ELSE [err |-> "", obj |-> found[1],
                calls |-> Append(calls2, Call("FindObjectsFinal", 0, TRUE))]

(***************************************************************************)
(* EC point extraction.  ecPointValue is the switch over the attribute     *)
(* bytes; an index past the end of the value is a run-time panic.          *)
(***************************************************************************)
ecPointValue(v) ==
    LET n == Len(v)
    IN  IF n % 2 = 0 /\ n = 0 THEN [panic |-> TRUE, ecpt |-> <<>>]
        ELSE IF n % 2 = 0 /\ v[1] = pointFormatMarker /\ v[n] = pointFormatMarker
        THEN [panic |-> FALSE, ecpt |-> SubSeq(v, 1, n - 1)]
        ELSE IF v[1] = pointFormatMarker /\ n < 3
        THEN [panic |-> TRUE, ecpt |-> <<>>]
        ELSE IF v[1] = pointFormatMarker /\ v[3] = pointFormatMarker
        THEN [panic |-> FALSE, ecpt |-> SubSeq(v, 3, n)]
        ELSE [panic |-> FALSE, ecpt |-> v]

\* ecPoint: a failed attribute read is logged and leaves the point empty.
ecPoint(objs, key, f, calls) ==
    LET o == ObjectOf(objs, key)
        ok == ~Fails(f, calls, "GetAttributeValue") /\ o.point # NoValue
        calls1 == Append(calls, Call("GetAttributeValue", key, ok))
    IN  IF ~ok THEN [panic |-> FALSE, ecpt |-> <<>>, calls |-> calls1]
        ELSE [panic |-> ecPointValue(o.point).panic,
              ecpt |-> ecPointValue(o.point).ecpt, calls |-> calls1]

\* GetPublicKey without the check for more than one match.
GetPublicKeyFirstMatch(objs, label, keyid, f, calls) ==
    LET found == findAllMatching(objs, KeyTemplate("public", label, keyid), f, calls)
    IN  IF found.err # ""
        THEN [exit |-> "return", err |-> found.err, ecpt |-> <<>>, calls |-> found.calls]
        ELSE IF Len(found.objects) = 0
        THEN [exit |-> "return", err |-> "KeyNotFound", ecpt |-> <<>>, calls |-> found.calls]
        ELSE
          LET pt == ecPoint(objs, found.objects[1], f, found.calls)
          IN  IF pt.panic
              THEN [exit |-> "panic", err |-> "", ecpt |-> <<>>, calls |-> pt.calls]
              ELSE [exit |-> "return",
                    err |-> IF UnmarshalPubkeyOk(pt.ecpt) THEN "" ELSE "InvalidPublicKey",
                    ecpt |-> pt.ecpt, calls |-> pt.calls]

GetPublicKey(objs, label, keyid, f, calls) ==
    LET found == findAllMatching(objs, KeyTemplate("public", label, keyid), f, calls)
    IN  IF found.err # ""
        THEN [exit |-> "return", err |-> found.err, ecpt |-> <<>>, calls |-> found.calls]
        ELSE IF Len(found.objects) > 1
        THEN [exit |-> "return", err |-> "AmbiguousKey", ecpt |-> <<>>, calls |-> found.calls]
        ELSE IF Len(found.objects) = 0
        THEN [exit |-> "return", err |-> "KeyNotFound", ecpt |-> <<>>, calls |-> found.calls]
        ELSE
          LET pt == ecPoint(objs, found.objects[1], f, found.calls)
          IN  IF pt.panic
              THEN [exit |-> "panic", err |-> "", ecpt |-> <<>>, calls |-> pt.calls]
              ELSE [exit |-> "return",
                    err |-> IF UnmarshalPubkeyOk(pt.ecpt) THEN "" ELSE "InvalidPublicKey",
                    ecpt |-> pt.ecpt, calls |-> pt.calls]

(***************************************************************************)
(* Signing.  k is the nonce the token draws.                               *)
(***************************************************************************)
\* The token never returns S = 0: it draws another nonce.
TokenNonce(d, k, hash) ==
    IF EcdsaS(d, k, hash) # 0 THEN k
    ELSE CHOOSE k2 \in Scalars : EcdsaS(d, k2, hash) # 0

\* Recoverable without the correction of S to the lower half.
RecoverableAnyS(sig, hash, ecpt) ==
    LET sigRS == fixLen(SubSeq(sig, 1, HashLength))
                   \o fixLen(SubSeq(sig, HashLength + 1, 2 * HashLength))
        rec0 == Ecrecover(hash, sigRS \o <<0>>)
        rec1 == Ecrecover(hash, sigRS \o <<1>>)
    IN  IF rec0.err # "" THEN [err |-> rec0.err, signature |-> <<>>]
        ELSE IF rec0.pub = ecpt
        THEN [err |-> "", signature |-> sigRS \o <<0 + recoveryOffset>>]
        ELSE IF rec1.err # "" THEN [err |-> rec1.err, signature |-> <<>>]
        ELSE IF rec1.pub = ecpt
        THEN [err |-> "", signature |-> sigRS \o <<1 + recoveryOffset>>]
        ELSE [err |-> "SignatureRecoveryFailed", signature |-> <<>>]

\* Lines 413-446 of Sign: low-S, fixed width, and the search for V.
Recoverable(sig, hash, ecpt) ==
    LET sigR == SubSeq(sig, 1, HashLength)
        sigS0 == SubSeq(sig, HashLength + 1, 2 * HashLength)
        sigSNum == BytesToInt(sigS0)
        sigS == IF sigSNum > secp256k1HalfN
                THEN IntToBytes(secp256k1N - sigSNum) ELSE sigS0
        sigRS == fixLen(sigR) \o fixLen(sigS)
        rec0 == Ecrecover(hash, sigRS \o <<0>>)
        rec1 == Ecrecover(hash, sigRS \o <<1>>)
    IN  IF rec0.err # "" THEN [err |-> rec0.err, signature |-> <<>>]
        ELSE IF rec0.pub = ecpt
        THEN [err |-> "", signature |-> sigRS \o <<0 + recoveryOffset>>]
        ELSE IF rec1.err # "" THEN [err |-> rec1.err, signature |-> <<>>]
        ELSE IF rec1.pub = ecpt
        THEN [err |-> "", signature |-> sigRS \o <<1 + recoveryOffset>>]
        ELSE [err |-> "SignatureRecoveryFailed", signature |-> <<>>]

SignResult(exit, err, signature, raw, ecpt, calls) ==
    [exit |-> exit, err |-> err, signature |-> signature, raw |-> raw,
     ecpt |-> ecpt, calls |-> calls]

Sign(objs, label, keyid, hash, k, f, calls) ==
    LET found == findAllMatching(objs, KeyTemplate("private", label, keyid), f, calls)
    IN  IF found.err # ""
        THEN SignResult("return", found.err, <<>>, <<>>, <<>>, found.calls)
        ELSE IF Len(found.objects) > 1
        THEN SignResult("return", "AmbiguousKey", <<>>, <<>>, <<>>, found.calls)
        ELSE IF Len(found.objects) = 0
        THEN SignResult("return", "KeyNotFound", <<>>, <<>>, <<>>, found.calls)
        ELSE
          LET key == ObjectOf(objs, found.objects[1])
              initOk == ~Fails(f, found.calls, "SignInit") /\ key.keytype = "EC"
              calls1 == Append(found.calls, Call("SignInit", key.h, initOk))
              signOk == ~Fails(f, calls1, "Sign")
              calls2 == Append(calls1, Call("Sign", key.h, signOk))
              full == RawSignature(key.d, TokenNonce(key.d, k, hash), hash)
              sig == IF f.call = "SignShort" THEN Take(full, HashLength) ELSE full
              pub == GetPublicKey(objs, label, keyid, f, calls2)
          IN  IF ~initOk
              THEN SignResult("fatal", "", <<>>, <<>>, <<>>, calls1)
              ELSE IF ~signOk
              THEN SignResult("return", "TokenError", <<>>, <<>>, <<>>, calls2)
              ELSE IF pub.exit = "panic"
              THEN SignResult("panic", "", <<>>, sig, <<>>, pub.calls)
              ELSE IF pub.err # ""
              THEN SignResult("return", pub.err, <<>>, sig, pub.ecpt, pub.calls)
              ELSE IF Len(sig) < 2 * HashLength
              THEN SignResult("panic", "", <<>>, sig, pub.ecpt, pub.calls)
              ELSE
                LET rec == Recoverable(sig, hash, pub.ecpt)
                IN  SignResult("return", rec.err, rec.signature, sig,
                               pub.ecpt, pub.calls)

(***************************************************************************)
(* Verification.                                                           *)
(***************************************************************************)
VerifyResult(exit, err, ecpt, recPub, calls) ==
    [exit |-> exit, err |-> err, ecpt |-> ecpt, recPub |-> recPub, calls |-> calls]

Verify(objs, label, keyid, hash, signature, f, calls) ==
    LET pub == GetPublicKey(objs, label, keyid, f, calls)
        rec == Ecrecover(hash, signature)
    IN  IF pub.exit = "panic"
        THEN VerifyResult("panic", "", <<>>, <<>>, pub.calls)
        ELSE IF pub.err # ""
        THEN VerifyResult("return", pub.err, pub.ecpt, <<>>, pub.calls)
        ELSE IF rec.err # ""
        THEN VerifyResult("return", rec.err, pub.ecpt, <<>>, pub.calls)
        ELSE IF rec.pub = pub.ecpt
        THEN VerifyResult("return", "", pub.ecpt, rec.pub, pub.calls)
        ELSE VerifyResult("return", "NotVerified", pub.ecpt, rec.pub, pub.calls)

(***************************************************************************)
(* Key generation.  tok is what the token draws for a new EC key: the      *)
(* private scalar d and the encoding enc of the CKA_EC_POINT it stores.    *)
(***************************************************************************)
validRSASize == {1024, 2048, 3072, 4096}

validAESSize == {128, 192, 256}

validECSize == {128, 192, 256}

isValidSize(sizes, in) == in \in sizes

EncodePoint(enc, p) ==
    CASE enc = "raw" -> p
      [] enc = "trailing" -> p \o <<pointFormatMarker>>
      [] enc = "der" -> <<4, Len(p)>> \o p

GenResult(err, objs, calls) ==
    [exit |-> "return", err |-> err, objs |-> objs, calls |-> calls]

GenerateECKey(objs, label, keyid, tok, f, calls) ==
    LET template == [a \in {"class"} \cup (IF label # "" THEN {"label"} ELSE {}) |->
                        IF a = "class" THEN "public" ELSE label]
        found == findAllMatching(objs, template, f, calls)
        id == IF keyid # "" THEN keyid ELSE label
        genOk == ~Fails(f, found.calls, "GenerateKeyPair")
        calls1 == Append(found.calls, Call("GenerateKeyPair", 0, genOk))
        pubH == NewHandle(objs)
        pub == Object(pubH, "public", "EC", label, id,
                      EncodePoint(tok.enc, PointBytes(tok.d)), 0, "generated")
        priv == Object(NewHandle(Append(objs, pub)), "private", "EC", label, id,
                       NoValue, tok.d, "generated")
    IN  IF found.err # "" THEN GenResult(found.err, objs, found.calls)
        ELSE IF Len(found.objects) > 0
        THEN GenResult("KeyAlreadyExists", objs, found.calls)
        ELSE IF ~genOk THEN GenResult("TokenError", objs, calls1)
        ELSE GenResult("", objs \o <<pub, priv>>, calls1)

GenerateAESKey(objs, label, keysize, f, calls) ==
    LET genOk == ~Fails(f, calls, "GenerateKey")
        calls1 == Append(calls, Call("GenerateKey", 0, genOk))
        key == Object(NewHandle(objs), "secret", "AES", label, "", NoValue, 0,
                      "generated")
    IN  IF ~genOk THEN GenResult("TokenError", objs, calls1)
        ELSE GenResult("", Append(objs, key), calls1)

GenerateRSAKey(objs, label, keysize, f, calls) ==
    LET genOk == ~Fails(f, calls, "GenerateKeyPair")
        calls1 == Append(calls, Call("GenerateKeyPair", 0, genOk))
        pub == Object(NewHandle(objs), "public", "RSA", label, "", NoValue, 0,
                      "generated")
        priv == Object(NewHandle(Append(objs, pub)), "private", "RSA", label, "",
                       NoValue, 0, "generated")
    IN  IF ~genOk THEN GenResult("TokenError", objs, calls1)
        ELSE GenResult("", objs \o <<pub, priv>>, calls1)

GenerateKeyPair(objs, label, keyid, algorithm, keytype, keysize, tok, f, calls) ==
    CASE keytype = "RSA" ->
           IF isValidSize(validRSASize, keysize)
           THEN GenerateRSAKey(objs, label, keysize, f, calls)
           ELSE GenResult("InvalidKeySize", objs, calls)
      [] keytype = "AES" ->
           IF isValidSize(validAESSize, keysize)
           THEN GenerateAESKey(objs, label, keysize, f, calls)
           ELSE GenResult("InvalidKeySize", objs, calls)
      [] keytype = "EC" ->
           IF isValidSize(validECSize, keysize) /\ algorithm = "S256"
           THEN GenerateECKey(objs, label, keyid, tok, f, calls)
           ELSE GenResult("InvalidKeySize", objs, calls)
      [] OTHER -> GenResult("UnsupportedKeyType", objs, calls)

(***************************************************************************)
(* Maintenance operations.                                                 *)
(***************************************************************************)
RemoveObject(objs, h) == SelectSeq(objs, LAMBDA o : o.h # h)

DeleteResult(exit, err, objs, calls) ==
    [exit |-> exit, err |-> err, objs |-> objs, calls |-> calls]

\* The loop of DeleteAllExcept as a best effort: a failed destroy is skipped
\* and reported when the loop has ended.
RECURSIVE DeleteLoopBestEffort(_, _, _, _, _, _, _)
DeleteLoopBestEffort(objs, handles, i, templateNil, keyLabels, f, calls) ==
    IF i > Len(handles)
    THEN DeleteResult("return",
                      IF \E j \in DOMAIN calls :
                            calls[j].op = "DestroyObject" /\ ~calls[j].ok
                      THEN "TokenError" ELSE "",
                      objs, calls)
    ELSE IF templateNil THEN DeleteResult("panic", "", objs, calls)
    ELSE
      LET o == ObjectOf(objs, handles[i])
          faulty == Fails(f, calls, "GetAttributeValue")
          labelExists == ~faulty /\ o.label # Absent
          calls1 == Append(calls, Call("GetAttributeValue", o.h, labelExists))
          keep == labelExists /\ o.label \in keyLabels
          destroyOk == ~Fails(f, calls1, "DestroyObject")
          calls2 == Append(calls1, Call("DestroyObject", o.h, destroyOk))
      IN  IF faulty THEN DeleteResult("return", "TokenError", objs, calls1)
          ELSE IF keep
          THEN DeleteLoopBestEffort(objs, handles, i + 1, FALSE, keyLabels, f, calls1)
          ELSE IF ~destroyOk
          THEN DeleteLoopBestEffort(objs, handles, i + 1, ~labelExists, keyLabels,
                                    f, calls2)
          ELSE DeleteLoopBestEffort(RemoveObject(objs, o.h), handles, i + 1,
                                    ~labelExists, keyLabels, f, calls2)

\* The loop of DeleteAllExcept over the handles found.  templateNil: the
\* attribute list passed to GetAttributeValue is the nil one a failed read
\* returned; reading with it indexes an empty list, a run-time panic.
RECURSIVE DeleteLoop(_, _, _, _, _, _, _)
DeleteLoop(objs, handles, i, templateNil, keyLabels, f, calls) ==
    IF i > Len(handles) THEN DeleteResult("return", "", objs, calls)
    ELSE IF templateNil THEN DeleteResult("panic", "", objs, calls)
    ELSE
      LET o == ObjectOf(objs, handles[i])
          faulty == Fails(f, calls, "GetAttributeValue")
          labelExists == ~faulty /\ o.label # Absent
          calls1 == Append(calls, Call("GetAttributeValue", o.h, labelExists))
          keep == labelExists /\ o.label \in keyLabels
          destroyOk == ~Fails(f, calls1, "DestroyObject")
          calls2 == Append(calls1, Call("DestroyObject", o.h, destroyOk))
      IN  IF faulty THEN DeleteResult("return", "TokenError", objs, calls1)
          ELSE IF keep
          THEN DeleteLoop(objs, handles, i + 1, FALSE, keyLabels, f, calls1)
          ELSE IF ~destroyOk
          THEN DeleteResult("return", "TokenError", objs, calls2)
          ELSE DeleteLoop(RemoveObject(objs, o.h), handles, i + 1,
                          ~labelExists, keyLabels, f, calls2)

\* DeleteAllExcept with a loop that stops one object early.
DeleteAllExceptButLast(objs, keyLabels, f, calls) ==
    LET found == findAllMatching(objs, EmptyTemplate, f, calls)
    IN  IF found.err # "" THEN DeleteResult("return", found.err, objs, found.calls)
        ELSE DeleteLoop(objs, SubSeq(found.objects, 1, Len(found.objects) - 1), 1,
                        FALSE, keyLabels, f, found.calls)

DeleteAllExcept(objs, keyLabels, f, calls) ==
    LET found == findAllMatching(objs, EmptyTemplate, f, calls)
    IN  IF found.err # "" THEN DeleteResult("return", found.err, objs, found.calls)
        ELSE DeleteLoop(objs, found.objects, 1, FALSE, keyLabels, f, found.calls)

Checksum(objs, keyLabel, f, calls) ==
    LET found == findKeyByLabel(objs, keyLabel, f, calls)
        initOk == /\ ~Fails(f, found.calls, "EncryptInit")
                  /\ ObjectOf(objs, found.obj).keytype = "AES"
        calls1 == Append(found.calls, Call("EncryptInit", found.obj, initOk))
        encOk == ~Fails(f, calls1, "Encrypt")
        calls2 == Append(calls1, Call("Encrypt", found.obj, encOk))
    IN  IF found.err # "" THEN [exit |-> "return", err |-> found.err, calls |-> found.calls]
        ELSE IF ~initOk THEN [exit |-> "return", err |-> "TokenError", calls |-> calls1]
        ELSE [exit |-> "return", err |-> IF encOk THEN "" ELSE "TokenError",
              calls |-> calls2]

\* PrintObjects: label = Absent stands for the nil filter.
PrintObjects(objs, label, f, calls) ==
    LET template == IF label = Absent THEN EmptyTemplate
                    ELSE [a \in {"label"} |-> label]
        found == findAllMatching(objs, template, f, calls)
    IN  [exit |-> "return", err |-> found.err, listed |-> found.objects,
         calls |-> found.calls]

(***************************************************************************)
(* One run of a command: NewToken, the operation, handleError, and the     *)
(* deferred Finalise.                                                      *)
(***************************************************************************)
RECURSIVE CallEach(_, _, _, _)
CallEach(steps, i, f, calls) ==
    IF i > Len(steps) THEN [err |-> "", calls |-> calls]
    ELSE IF Fails(f, calls, steps[i])
    THEN [err |-> "TokenError", calls |-> Append(calls, Call(steps[i], 0, FALSE))]
    ELSE CallEach(steps, i + 1, f, Append(calls, Call(steps[i], 0, TRUE)))

\* NewToken, newP11Token, openUserSession and findSlotWithToken: an error
\* after Initialize is returned with the module still initialized.
NewToken(f) ==
    CallEach(<<"Initialize", "GetSlotList", "GetTokenInfo", "OpenSession", "Login">>,
             1, f, <<>>)

\* Finalise: Destroy unloads the module only after a successful Finalize.
Finalise(f, calls) ==
    IF Fails(f, calls, "Finalize")
    THEN Append(calls, Call("Finalize", 0, FALSE))
    ELSE calls \o <<Call("Finalize", 0, TRUE), Call("Destroy", 0, TRUE)>>

\* handleError(err) ends the run when err is an error; the calls deferred
\* before it still run.
handleError(err) == IF err # "" THEN "error" ELSE "ok"

NoOut == [exit |-> "none"]

\* r is what the operation does on the session NewToken opened.  A fatal log
\* ends the process at once: nothing deferred runs.  A panic unwinds through
\* the deferred calls.
Command(cmd, args, f, r) ==
    LET nt == NewToken(f)
        exit == IF r.exit = "return" THEN handleError(r.err) ELSE r.exit
    IN  IF handleError(nt.err) = "error"
        THEN [cmd |-> cmd, args |-> args, pre |-> objects, exit |-> "error",
              err |-> nt.err, calls |-> nt.calls, out |-> NoOut]
        ELSE [cmd |-> cmd, args |-> args, pre |-> objects, exit |-> exit,
              err |-> r.err,
              calls |-> IF exit = "fatal" THEN r.calls ELSE Finalise(f, r.calls),
              out |-> r]

Idle == [cmd |-> "none"]

(***************************************************************************)
(* Inputs.                                                                 *)
(***************************************************************************)
Labels == {"", "a", "b"}

KeyIds == {"", "a"}

\* The labels keys are generated with.
GenLabels == {"", "a"}

Hashes == {<<0, 0>>, <<1, 3>>, <<1, 5>>, <<2>>}

Nonces == {1, 2, 3, 9, 12, 28}

KeyTypes == {"RSA", "AES", "EC", "DSA"}

KeySizes == {128, 256, 1024}

Algorithms == {"S256", "P256"}

TokenKeys == {[d |-> 2, enc |-> "der"], [d |-> 4, enc |-> "raw"],
              [d |-> 7, enc |-> "trailing"]}

FaultsOf(callNames, maxNth) ==
    {NoFault} \cup [call : callNames, nth : 1..maxNth]

SessionCalls == {"Initialize", "GetSlotList", "GetTokenInfo", "OpenSession",
                 "Login", "Finalize"}

SearchCalls == {"FindObjectsInit", "FindObjects", "FindObjectsFinal"}

\* Objects other clients of the token put there.
ForeignObjects ==
    { Object(0, "secret", "AES", Absent, "", NoValue, 0, "foreign"),
      Object(0, "public", "EC", "b", "b", <<4>>, 0, "foreign"),
      Object(0, "private", "EC", "a", "a", NoValue, 2, "foreign") }

(***************************************************************************)
(* Actions.  Every argument is explored without a fault; a fault is        *)
(* explored with one choice of the arguments it does not depend on.        *)
(***************************************************************************)
SessionFaults == FaultsOf(SessionCalls, 1) \ {NoFault}

DoSign ==
    /\ run = Idle
    /\ \E label \in Labels, keyid \in KeyIds, hash \in Hashes, k \in Nonces,
          f \in SessionFaults
                 \cup FaultsOf(SearchCalls \cup {"SignInit", "Sign", "SignShort",
                                                 "GetAttributeValue"}, 1)
                 \cup FaultsOf({"FindObjects"}, 2) :
         /\ f # NoFault => keyid = "" /\ hash = <<1, 3>> /\ k = 1
         /\ f \in SessionFaults => label = "a"
         /\ Len(hash) # HashLength => k = 1
         /\ run' = Command("sign", [label |-> label, keyid |-> keyid, hash |-> hash],
                           f, Sign(objects, label, keyid, hash, k, f, NewToken(f).calls))
         /\ UNCHANGED objects

\* The signature verified is one the operator supplies, or the one the
\* sign command that just ended printed.
SuppliedSignatures == {<<>>, <<1, 1, 1, 2, 0>>, <<1, 1, 1, 2, 1>>}

DoVerify ==
    \E f \in SessionFaults \cup FaultsOf(SearchCalls \cup {"GetAttributeValue"}, 1) :
      /\ \/ /\ run = Idle
            /\ \E label \in Labels, keyid \in KeyIds, hash \in Hashes,
                  signature \in SuppliedSignatures :
                 /\ f # NoFault =>
                      keyid = "" /\ hash = <<1, 3>> /\ signature = <<1, 1, 1, 2, 1>>
                 /\ f \in SessionFaults => label = "a"
                 /\ signature = <<>> => hash = <<1, 3>>
                 /\ run' = Command("verify",
                                   [label |-> label, keyid |-> keyid, hash |-> hash,
                                    signature |-> signature, fromSign |-> FALSE], f,
                                   Verify(objects, label, keyid, hash,
                                                         signature, f, NewToken(f).calls))
         \/ /\ run.cmd = "sign"
            /\ run.exit = "ok"
            /\ f = NoFault
            /\ run' = Command("verify",
                              [label |-> run.args.label, keyid |-> run.args.keyid,
                               hash |-> run.args.hash,
                               signature |-> run.out.signature, fromSign |-> TRUE], f,
                              Verify(objects, run.args.label,
                                                    run.args.keyid, run.args.hash,
                                                    run.out.signature, f, NewToken(f).calls))
      /\ UNCHANGED objects

DoGetEthereumAddress ==
    /\ run = Idle
    /\ \E label \in Labels, keyid \in KeyIds,
          f \in SessionFaults \cup FaultsOf(SearchCalls \cup {"GetAttributeValue"}, 1) :
         /\ f # NoFault => keyid = ""
         /\ f \in SessionFaults => label = "a"
         /\ run' = Command("getEthereumAddress", [label |-> label, keyid |-> keyid],
                           f, GetPublicKey(objects, label, keyid, f, NewToken(f).calls))
         /\ UNCHANGED objects

\* The token's draw is explored where the arguments reach the generation of
\* an EC key.
DoGenerateKeyPair ==
    /\ run = Idle
    /\ Len(objects) + 2 <= MaxObjects
    /\ \E label \in GenLabels, keyid \in KeyIds, algorithm \in Algorithms,
          keytype \in KeyTypes, keysize \in KeySizes, tok \in TokenKeys,
          f \in SessionFaults
                 \cup FaultsOf(SearchCalls \cup {"GenerateKeyPair", "GenerateKey"}, 1) :
         /\ f # NoFault => keyid = "" /\ algorithm = "S256" /\ keysize = 256 /\ tok.d = 2
         /\ f \in SessionFaults => label = "a" /\ keytype = "EC"
         /\ keytype # "EC" \/ algorithm # "S256" \/ keysize \notin validECSize
              => tok.d = 2
         /\ LET r == Command("generateKeyPair",
                             [label |-> label, keyid |-> keyid, algorithm |-> algorithm,
                              keytype |-> keytype, keysize |-> keysize], f,
                             GenerateKeyPair(objects, label, keyid,
                                              algorithm, keytype, keysize, tok, f,
                                              NewToken(f).calls))
            IN  /\ run' = r
                /\ objects' = IF r.out = NoOut THEN objects ELSE r.out.objs

DoDeleteAllExcept ==
    /\ run = Idle
    /\ \E keyLabels \in SUBSET {"a", "b"},
          f \in SessionFaults \cup FaultsOf(SearchCalls, 1)
                 \cup FaultsOf({"GetAttributeValue", "DestroyObject"}, MaxObjects) :
         /\ f \in SessionFaults \cup FaultsOf(SearchCalls, 1) /\ f # NoFault
              => keyLabels = {"a"}
         /\ LET r == Command("delete", [keyLabels |-> keyLabels], f,
                             DeleteAllExcept(objects, keyLabels, f, NewToken(f).calls))
            IN  /\ run' = r
                /\ objects' = IF r.out = NoOut THEN objects ELSE r.out.objs

DoChecksum ==
    /\ run = Idle
    /\ \E label \in Labels,
          f \in SessionFaults
                 \cup FaultsOf(SearchCalls \cup {"EncryptInit", "Encrypt"}, 1) :
         /\ f \in SessionFaults => label = "a"
         /\ run' = Command("checksum", [label |-> label], f,
                           Checksum(objects, label, f, NewToken(f).calls))
         /\ UNCHANGED objects

DoList ==
    /\ run = Idle
    /\ \E label \in Labels \cup {Absent},
          f \in SessionFaults \cup FaultsOf(SearchCalls, 1) :
         /\ f # NoFault => label \in {"a", Absent}
         /\ f \in SessionFaults => label = "a"
         /\ run' = Command("list", [label |-> label], f,
                           PrintObjects(objects, label, f, NewToken(f).calls))
         /\ UNCHANGED objects

\* Another client of the token creates an object: each kind once, and
\* before this program generates keys.
ForeignCreate ==
    /\ run = Idle
    /\ Len(objects) < MaxObjects
    /\ \A i \in DOMAIN objects : objects[i].origin = "foreign"
    /\ \E o \in ForeignObjects :
         /\ \A i \in DOMAIN objects : [objects[i] EXCEPT !.h = 0] # o
         /\ objects' = Append(objects, [o EXCEPT !.h = NewHandle(objects)])
    /\ UNCHANGED run

\* The process has ended; the operator is back at the prompt.
Prompt ==
    /\ run # Idle
    /\ run' = Idle
    /\ UNCHANGED objects

Init ==
    /\ objects = <<>>
    /\ run = Idle

Next ==
    \/ DoSign
    \/ DoVerify
    \/ DoGetEthereumAddress
    \/ DoGenerateKeyPair
    \/ DoDeleteAllExcept
    \/ DoChecksum
    \/ DoList
    \/ ForeignCreate
    \/ Prompt

Spec == Init /\ [][Next]_vars

(***************************************************************************)
(* Searching a token that holds many keys: n AES keys GenerateKeyPair      *)
(* made, every stride-th one labelled "a" and the others "b".              *)
(***************************************************************************)
ManyObjects(n, stride) ==
    [i \in 1..n |-> Object(i, "secret", "AES",
                           IF i % stride = 0 THEN "a" ELSE "b", "", NoValue, 0,
                           "generated")]

InitPaging ==
    /\ objects \in {ManyObjects(n, stride) : n \in 0..MaxMatches, stride \in {1, 2}}
    /\ run = Idle

NextPaging ==
    \/ DoList
    \/ Prompt

SpecPaging == InitPaging /\ [][NextPaging]_vars

(***************************************************************************)
(* fixLen on its own: the byte strings Sign may hand to it, and one call.  *)
(***************************************************************************)
RECURSIVE ByteStrings(_)
ByteStrings(n) ==
    IF n = 0 THEN {<<>>}
    ELSE ByteStrings(n - 1)
           \cup {Append(b, x) : b \in ByteStrings(n - 1), x \in 0..(ByteRadix - 1)}

InitBytes ==
    /\ objects = <<>>
    /\ run \in {[cmd |-> "input", b |-> b] : b \in ByteStrings(MaxLen)}

CallFixLen ==
    /\ run.cmd = "input"
    /\ run' = [cmd |-> "fixLen", b |-> run.b, out |-> fixLen(run.b)]
    /\ UNCHANGED objects

NextBytes == CallFixLen

SpecBytes == InitBytes /\ [][NextBytes]_vars

(***************************************************************************)
(* Reading the public key of a token whose one public key carries an       *)
(* arbitrary CKA_EC_POINT value: every value of up to two bytes more than  *)
(* a point, over the marker, the wrapper's length byte and one other byte. *)
(***************************************************************************)
PointLength == 2 * HashLength + 1

WrapperPrefix == <<pointFormatMarker, PointLength>>

RECURSIVE AttributeValues(_)
AttributeValues(n) ==
    IF n = 0 THEN {<<>>}
    ELSE AttributeValues(n - 1)
           \cup {Append(v, x) : v \in AttributeValues(n - 1),
                                x \in {0, pointFormatMarker, PointLength}}

InitPoints ==
    /\ objects \in {<<Object(1, "public", "EC", "a", "a", v, 0, "foreign")>> :
                       v \in AttributeValues(PointLength + 2)}
    /\ run = Idle

NextPoints ==
    \/ DoGetEthereumAddress
    \/ Prompt

SpecPoints == InitPoints /\ [][NextPoints]_vars

(***************************************************************************)
(* What the claims read from the run that has just ended.                  *)
(***************************************************************************)
Ran == run.cmd # "none"

OpRan == Ran /\ run.out # NoOut

Returned == OpRan /\ run.out.exit = "return"

CallsTo(ops) == SelectSeq(run.calls, LAMBDA c : c.op \in ops)

AllCallsOk == \A i \in DOMAIN run.calls : run.calls[i].ok

OpCalls == SelectSeq(run.calls, LAMBDA c : c.op \notin SessionCalls \cup {"Destroy"})

\* The first search of the operation met a failing token call.
FirstSearchFailed ==
    \E i \in DOMAIN run.calls :
        /\ run.calls[i].op \in SearchCalls
        /\ ~run.calls[i].ok
        /\ \A j \in 1..(i - 1) : run.calls[j].op # "FindObjectsFinal"

ObjectSet(objs) == {objs[i] : i \in DOMAIN objs}

\* The objects of the given class that carry the label and the identifier
\* asked for (an empty label or identifier asks for nothing).
Candidates(objs, class, label, keyid) ==
    {o \in ObjectSet(objs) :
        /\ o.class = class
        /\ label = "" \/ o.label = label
        /\ keyid = "" \/ o.id = keyid}

(***************************************************************************)
(* C1: unique key resolution.  When the search itself did not fail, Sign   *)
(* (private key) and GetPublicKey/Verify (public key) fail with            *)
(* KeyNotFound when no object matches and with AmbiguousKey when two or    *)
(* more match, making no sign-init, sign or attribute-read call; when      *)
(* exactly one matches, the first such call is made on that object.        *)
(***************************************************************************)
C1_UniqueResolution ==
    (OpRan /\ run.cmd \in {"sign", "verify", "getEthereumAddress"}
           /\ ~FirstSearchFailed) =>
      LET class == IF run.cmd = "sign" THEN "private" ELSE "public"
          m == Candidates(run.pre, class, run.args.label, run.args.keyid)
          used == CallsTo({"SignInit", "Sign", "GetAttributeValue"})
      IN  /\ m = {} => run.out.err = "KeyNotFound" /\ used = <<>>
          /\ Cardinality(m) >= 2 => run.out.err = "AmbiguousKey" /\ used = <<>>
          /\ Cardinality(m) = 1 =>
               /\ used # <<>>
               /\ used[1].op = (IF run.cmd = "sign" THEN "SignInit"
                                ELSE "GetAttributeValue")
               /\ \A o \in m : used[1].arg = o.h

C1_Witness ==
    /\ OpRan
    /\ run.cmd = "verify"
    /\ Cardinality(Candidates(run.pre, "public", run.args.label, run.args.keyid)) >= 2
    /\ run.out.err = "AmbiguousKey"

(***************************************************************************)
(* C2: round trip.  With a token that holds only generated keys and no     *)
(* failing token call, the signature Sign returned, passed unchanged to    *)
(* Verify with the same label, identifier and hash, verifies.              *)
(***************************************************************************)
C2_RoundTrip ==
    (OpRan /\ run.cmd = "verify" /\ run.args.fromSign /\ AllCallsOk
           /\ \A o \in ObjectSet(run.pre) : o.origin = "generated") =>
      run.out.exit = "return" /\ run.out.err = ""

(***************************************************************************)
(* C3: canonical form.  A signature Sign returns without error is          *)
(* 2 * HashLength + 1 bytes, its S part is at most half the curve order,   *)
(* and its last byte is 27 or 28.                                          *)
(***************************************************************************)
C3_CanonicalSignature ==
    (OpRan /\ run.cmd = "sign" /\ run.out.exit = "return" /\ run.out.err = "") =>
      LET sig == run.out.signature
      IN  /\ Len(sig) = 2 * HashLength + 1
          /\ BytesToInt(SubSeq(sig, HashLength + 1, 2 * HashLength))
               <= secp256k1N \div 2
          /\ sig[2 * HashLength + 1] \in {27, 28}

\* A signature was returned for a raw S in the upper half of the order.
C3_Witness ==
    /\ OpRan
    /\ run.cmd = "sign"
    /\ run.out.exit = "return"
    /\ run.out.err = ""
    /\ BytesToInt(SubSeq(run.out.raw, HashLength + 1, 2 * HashLength))
         > secp256k1N \div 2

(***************************************************************************)
(* C4: validation of GenerateKeyPair.  With no failing token call and no   *)
(* object carrying the label, the call succeeds exactly for RSA with 1024, *)
(* 2048, 3072 or 4096, AES with 128, 192 or 256, and EC with 256 and       *)
(* algorithm S256; a supported type otherwise fails with InvalidKeySize,   *)
(* another type with UnsupportedKeyType; a failing call touches no token   *)
(* call.                                                                   *)
(***************************************************************************)
C4_GenerateValidation ==
    (OpRan /\ run.cmd = "generateKeyPair" /\ AllCallsOk
           /\ \A o \in ObjectSet(run.pre) : o.label # run.args.label) =>
      LET a == run.args
          valid == \/ a.keytype = "RSA" /\ a.keysize \in {1024, 2048, 3072, 4096}
                   \/ a.keytype = "AES" /\ a.keysize \in {128, 192, 256}
                   \/ a.keytype = "EC" /\ a.keysize = 256 /\ a.algorithm = "S256"
      IN  /\ run.out.err = "" <=> valid
          /\ a.keytype \in {"RSA", "AES", "EC"} /\ ~valid => run.out.err = "InvalidKeySize"
          /\ a.keytype \notin {"RSA", "AES", "EC"} => run.out.err = "UnsupportedKeyType"
          /\ run.out.err # "" => OpCalls = <<>>

(***************************************************************************)
(* C5: EC duplicate labels.  With no failing token call, generating an EC  *)
(* key pair under a label a public-key object already carries fails with   *)
(* KeyAlreadyExists, without a generate call and without a change of the   *)
(* token; otherwise exactly one public and one private key with the label  *)
(* are added.                                                              *)
(***************************************************************************)
C5_ECDuplicateLabel ==
    (OpRan /\ run.cmd = "generateKeyPair" /\ AllCallsOk
           /\ run.args.keytype = "EC" /\ run.args.algorithm = "S256"
           /\ run.args.keysize = 256) =>
      LET dup == \E o \in ObjectSet(run.pre) :
                     o.class = "public" /\ o.label = run.args.label
          added == SubSeq(objects, Len(run.pre) + 1, Len(objects))
      IN  /\ dup => /\ run.out.err = "KeyAlreadyExists"
                    /\ CallsTo({"GenerateKeyPair"}) = <<>>
                    /\ objects = run.pre
          /\ ~dup => /\ run.out.err = ""
                     /\ SubSeq(objects, 1, Len(run.pre)) = run.pre
                     /\ Len(added) = 2
                     /\ {added[i].class : i \in DOMAIN added} = {"public", "private"}
                     /\ \A i \in DOMAIN added : added[i].label = run.args.label

(***************************************************************************)
(* C6: no duplicate labels.  On a token that holds only keys               *)
(* GenerateKeyPair made, no two objects of the same class carry the same   *)
(* label.                                                                  *)
(***************************************************************************)
C6_NoDuplicateLabels ==
    (\A o \in ObjectSet(objects) : o.origin = "generated") =>
      \A i, j \in DOMAIN objects :
          (i # j /\ objects[i].class = objects[j].class)
            => objects[i].label # objects[j].label

(***************************************************************************)
(* C7: DeleteAllExcept.  When it returns without error, the token holds    *)
(* exactly the objects it held before whose label is one of keyLabels, in  *)
(* the same order; the objects without a label are gone.                   *)
(***************************************************************************)
C7_DeleteAllExcept ==
    (OpRan /\ run.cmd = "delete" /\ run.out.exit = "return" /\ run.out.err = "") =>
      /\ objects = SelectSeq(run.pre, LAMBDA o : o.label \in run.args.keyLabels)
      /\ \A o \in ObjectSet(run.pre) :
           o.label = Absent => o.h \notin Handles(objects)

\* DeleteAllExcept returned without error from a token that held an object
\* it kept, a labelled object it destroyed and an object without a label.
C7_Witness ==
    /\ OpRan
    /\ run.cmd = "delete"
    /\ run.out.exit = "return"
    /\ run.out.err = ""
    /\ objects # <<>>
    /\ \E o \in ObjectSet(run.pre) : o.label = Absent
    /\ \E o \in ObjectSet(run.pre) :
         o.label # Absent /\ o.label \notin run.args.keyLabels

(***************************************************************************)
(* C8: search pairing.  When an operation returns, every search it opened  *)
(* with a successful FindObjectsInit has been closed by a FindObjectsFinal.*)
(***************************************************************************)
C8_SearchPairing ==
    Returned =>
      Len(SelectSeq(run.calls, LAMBDA c : c.op = "FindObjectsInit" /\ c.ok))
        = Len(CallsTo({"FindObjectsFinal"}))

(***************************************************************************)
(* C9: session lifecycle.  A run that initialized the token module, found  *)
(* the slot, opened the session and logged in, and whose finalize call the *)
(* module does not refuse, has finalized and unloaded the module exactly   *)
(* once when it ends, whatever the operation did.                          *)
(***************************************************************************)
C9_SessionLifecycle ==
    (Ran /\ \A i \in DOMAIN run.calls :
                run.calls[i].op \in SessionCalls => run.calls[i].ok) =>
      /\ Len(SelectSeq(run.calls, LAMBDA c : c.op = "Finalize" /\ c.ok)) = 1
      /\ Len(CallsTo({"Finalize"})) = 1
      /\ Len(CallsTo({"Destroy"})) = 1

(***************************************************************************)
(* C10: Verify never crashes.  Verify ends by returning: an error, or      *)
(* success when the recovered point equals the resolved point.             *)
(***************************************************************************)
C10_VerifyNeverCrashes ==
    (OpRan /\ run.cmd = "verify") =>
      /\ run.out.exit = "return"
      /\ run.out.err = "" => run.out.recPub = run.out.ecpt /\ run.out.ecpt # <<>>

(***************************************************************************)
(* C11: identifier defaulting.  Every object a successful GenerateKeyPair  *)
(* adds carries the identifier supplied, or the label when none is         *)
(* supplied.                                                               *)
(***************************************************************************)
C11_IdentifierDefaulting ==
    (OpRan /\ run.cmd = "generateKeyPair" /\ run.out.exit = "return"
           /\ run.out.err = "") =>
      LET added == SubSeq(objects, Len(run.pre) + 1, Len(objects))
      IN  /\ added # <<>>
          /\ \A i \in DOMAIN added :
               added[i].id = (IF run.args.keyid # "" THEN run.args.keyid
                              ELSE run.args.label)

(***************************************************************************)
(* C12: paged search.  When no token call fails, findAllMatching returns   *)
(* the handles of all matching objects in enumeration order, once each,    *)
(* fetched in pages of 1 to batchSize handles that end with the first      *)
(* empty page, for any number of matches.                                  *)
(***************************************************************************)
RECURSIVE SumOfArgs(_)
SumOfArgs(calls) ==
    IF calls = <<>> THEN 0 ELSE Head(calls).arg + SumOfArgs(Tail(calls))

C12_PagedSearch ==
    (OpRan /\ run.cmd = "list" /\ AllCallsOk) =>
      LET wanted == SelectSeq(run.pre, LAMBDA o :
                        run.args.label = Absent \/ o.label = run.args.label)
          pages == CallsTo({"FindObjects"})
      IN  /\ run.out.err = ""
          /\ Len(run.out.listed) = Len(wanted)
          /\ \A i \in DOMAIN wanted : run.out.listed[i] = wanted[i].h
          /\ Len(CallsTo({"FindObjectsInit"})) = 1
          /\ pages # <<>>
          /\ pages[Len(pages)].arg = 0
          /\ \A i \in 1..(Len(pages) - 1) : pages[i].arg \in 1..batchSize
          /\ SumOfArgs(pages) = Len(wanted)

\* A search returned exactly two full pages of matches.
C12_Witness ==
    /\ OpRan
    /\ run.cmd = "list"
    /\ AllCallsOk
    /\ Len(run.out.listed) = 2 * batchSize
    /\ Len(CallsTo({"FindObjects"})) = 3

(***************************************************************************)
(* C13: fixed-width padding.  For every byte string b whose big-endian     *)
(* value fits in HashLength bytes, fixLen(b) is HashLength bytes long and  *)
(* has the big-endian value of b.                                          *)
(***************************************************************************)
C13_FixLenPreservesValue ==
    (run.cmd = "fixLen" /\ Len(StripLeadingZeros(run.b)) <= HashLength) =>
      /\ Len(run.out) = HashLength
      /\ BytesToInt(run.out) = BytesToInt(run.b)

(***************************************************************************)
(* C14: recovery id.  Once Sign holds the raw signature of a hash of       *)
(* HashLength bytes and the signer's point P, with R||S the normalized     *)
(* signature: if R||S||0 recovers P the signature returned is R||S||27;    *)
(* otherwise, if R||S||1 recovers P, it is R||S||28; otherwise Sign fails  *)
(* with a recovery error and returns no signature.  A returned signature,  *)
(* with 27 taken off its last byte, recovers P.                            *)
(***************************************************************************)
NormalizedRS ==
    LET rawR == SubSeq(run.out.raw, 1, HashLength)
        rawS == SubSeq(run.out.raw, HashLength + 1, 2 * HashLength)
        lowS == IF BytesToInt(rawS) > secp256k1N \div 2
                THEN IntToBytes(secp256k1N - BytesToInt(rawS)) ELSE rawS
    IN  fixLen(rawR) \o fixLen(lowS)

Recovers(v) ==
    LET rec == Ecrecover(run.args.hash, NormalizedRS \o <<v>>)
    IN  rec.err = "" /\ rec.pub = run.out.ecpt

ReachedRecovery ==
    /\ OpRan
    /\ run.cmd = "sign"
    /\ run.out.exit = "return"
    /\ Len(run.args.hash) = HashLength
    /\ Len(run.out.raw) = 2 * HashLength
    /\ UnmarshalPubkeyOk(run.out.ecpt)

C14_RecoveryId ==
    ReachedRecovery =>
      /\ IF Recovers(0)
         THEN run.out.err = "" /\ run.out.signature = NormalizedRS \o <<27>>
         ELSE IF Recovers(1)
         THEN run.out.err = "" /\ run.out.signature = NormalizedRS \o <<28>>
         ELSE /\ run.out.err \in {"SignatureRecoveryFailed", "RecoveryFailed"}
              /\ run.out.signature = <<>>
      /\ run.out.err = "" => Recovers(run.out.signature[2 * HashLength + 1] - 27)

(***************************************************************************)
(* C15: EC point extraction.  For the attribute value v read from the key: *)
(* (a) if v has even length and its first and last byte are the marker,    *)
(* the point is v without its last byte; (b) otherwise, if the byte after  *)
(* a two-byte prefix is the marker, the point is v without its first two   *)
(* bytes; (c) otherwise the point is v.                                    *)
(***************************************************************************)
PointReads == SelectSeq(run.calls, LAMBDA c : c.op = "GetAttributeValue" /\ c.ok)

ValueRead == ObjectOf(run.pre, PointReads[1].arg).point

ExtractedPoint(v) ==
    IF Len(v) % 2 = 0 /\ Len(v) > 0 /\ v[1] = 4 /\ v[Len(v)] = 4
    THEN SubSeq(v, 1, Len(v) - 1)
    ELSE IF Len(v) >= 3 /\ v[3] = 4
    THEN SubSeq(v, 3, Len(v))
    ELSE v

C15_PointExtraction ==
    (OpRan /\ run.cmd = "getEthereumAddress" /\ PointReads # <<>>) =>
      /\ run.out.exit = "return"
      /\ run.out.ecpt = ExtractedPoint(ValueRead)

(***************************************************************************)
(* C16: independent processing.  Unless it aborts with an error,           *)
(* DeleteAllExcept goes through every object and decides on each by that   *)
(* object's own label: it returns, and the token then holds exactly the    *)
(* objects whose own label is one of keyLabels, also when an object        *)
(* without a label was enumerated before others.                           *)
(***************************************************************************)
C16_DeleteIndependence ==
    (OpRan /\ run.cmd = "delete" /\ run.out.err = "") =>
      /\ run.out.exit = "return"
      /\ objects = SelectSeq(run.pre, LAMBDA o : o.label \in run.args.keyLabels)

(***************************************************************************)
(* C17: abort.  When DeleteAllExcept returns the error of a failed label   *)
(* read or of a failed destroy of the k-th object, that call is its last   *)
(* token call: the k-th object and every object enumerated after it are    *)
(* still on the token, and of the objects before it exactly those whose    *)
(* label is in keyLabels are.                                              *)
(***************************************************************************)
DeleteCalls == CallsTo({"GetAttributeValue", "DestroyObject"})

AbortedAt == DeleteCalls[Len(DeleteCalls)].arg

PositionIn(objs, h) == CHOOSE i \in DOMAIN objs : objs[i].h = h

DeleteAborted ==
    /\ OpRan
    /\ run.cmd = "delete"
    /\ run.out.exit = "return"
    /\ run.out.err # ""
    /\ DeleteCalls # <<>>

C17_DeleteAbort ==
    DeleteAborted =>
      LET k == PositionIn(run.pre, AbortedAt)
      IN  /\ ~DeleteCalls[Len(DeleteCalls)].ok
          /\ OpCalls[Len(OpCalls)] = DeleteCalls[Len(DeleteCalls)]
          /\ objects = SelectSeq(run.pre, LAMBDA o :
                          \/ PositionIn(run.pre, o.h) >= k
                          \/ o.label \in run.args.keyLabels)

\* A destroy failed after another object had been destroyed and before the
\* last object was reached.
C17_Witness ==
    /\ DeleteAborted
    /\ DeleteCalls[Len(DeleteCalls)].op = "DestroyObject"
    /\ PositionIn(run.pre, AbortedAt) \in 2..(Len(run.pre) - 1)
    /\ Len(objects) < Len(run.pre)

(***************************************************************************)
(* C18: Sign reports failures.  When a token call made during Sign fails   *)
(* or the raw signature is shorter than 2 * HashLength bytes, Sign returns *)
(* an error and no signature, and the run finalizes the module.            *)
(***************************************************************************)
C18_SignReportsFailures ==
    (OpRan /\ run.cmd = "sign"
           /\ \/ \E i \in DOMAIN OpCalls : ~OpCalls[i].ok
              \/ (CallsTo({"Sign"}) # <<>> /\ Len(run.out.raw) < 2 * HashLength
                    /\ \A i \in DOMAIN OpCalls :
                          OpCalls[i].op = "Sign" => OpCalls[i].ok)) =>
      /\ run.out.exit = "return"
      /\ run.out.err # ""
      /\ run.out.signature = <<>>
      /\ CallsTo({"Finalize"}) # <<>>

(***************************************************************************)
(* C19: encoding independence.  For every point P (the marker followed by  *)
(* arbitrary coordinate bytes), the point extracted from P itself, from P  *)
(* followed by one marker byte, and from the two-byte wrapper followed by  *)
(* P is P.                                                                 *)
(***************************************************************************)
C19_EncodingIndependence ==
    (OpRan /\ run.cmd = "getEthereumAddress" /\ PointReads # <<>>) =>
      \A p \in {v \in AttributeValues(PointLength) :
                   Len(v) = PointLength /\ v[1] = 4} :
          ValueRead \in {p, p \o <<4>>, WrapperPrefix \o p}
            => run.out.exit = "return" /\ run.out.ecpt = p

====
